---- MODULE Spec2Model ----
(***************************************************************************)
(* A model of simple_pa (src/src/lib.rs): the typed handle Simple<T> over  *)
(* the PulseAudio simple API.  The native library is the environment: its  *)
(* return values and error codes are inputs of the actions.  Every native  *)
(* call this layer makes is appended to the log `calls`.                   *)
(***************************************************************************)
EXTENDS Integers, Sequences, FiniteSets, TLC

VARIABLES
    handles,        \* the Simple<T> values created so far, in creation order
    calls,          \* the native calls issued so far, in order
    last,           \* the most recent public operation and what it returned
    proc,           \* "running" | "unwinding" (after a panic) | "aborted"
    released,       \* error codes whose strerror buffer this layer released
    T,              \* the sample type of the instantiation Simple<T> followed
    target_endian   \* cfg(target_endian) of the build

vars == <<handles, calls, last, proc, released, T, target_endian>>

(***************************************************************************)
(* Bounds of the model.                                                    *)
(***************************************************************************)
MaxOps == 3
MaxHandles == 2
MaxSamples == 2
MaxOpenCalls == 1

NULL == 0

(***************************************************************************)
(* enum RawSample, StreamDirection, trait PSimple.                         *)
(***************************************************************************)
U8 == 0
S16LE == 3
S16BE == 4
FLOAT32LE == 5
FLOAT32BE == 6
S32LE == 7
S32BE == 8

Directions == {"Playback", "Capture"}

StreamDirection_into_c(self) ==
    IF self = "Capture" THEN 0 ELSE 1

SampleTypes == {"u8", "i16", "f32", "i32"}

FORMAT(t, endian) ==
    CASE t = "u8" -> U8
      [] t = "i16" -> IF endian = "little" THEN S16LE ELSE S16BE
      [] t = "f32" -> IF endian = "little" THEN FLOAT32LE ELSE FLOAT32BE
      [] t = "i32" -> IF endian = "little" THEN S32LE ELSE S32BE

\* std::mem::size_of::<T>()
size_of(t) ==
    CASE t = "u8" -> 1
      [] t = "i16" -> 2
      [] t = "f32" -> 4
      [] t = "i32" -> 4

(***************************************************************************)
(* SampleSpec and its marshalling to PaSampleSpecRaw.                      *)
(***************************************************************************)
\* `x as i8` of a u8: the same byte read as a two's-complement number
AsI8(x) == IF x >= 128 THEN x - 256 ELSE x

SampleSpec_new(rate, n_channels) ==
    [rate |-> rate, n_channels |-> n_channels]

SampleSpec_into_c(self) ==
    [format |-> -1, rate |-> self.rate, channels |-> AsI8(self.n_channels)]

(***************************************************************************)
(* Stream names are byte strings; CString::new rejects any nul byte.       *)
(***************************************************************************)
HasNul(stream_name) == \E i \in 1..Len(stream_name) : stream_name[i] = 0

Names == {<<116, 111, 110, 101>>, <<98, 97, 100, 0, 110, 97, 109, 101>>}

(***************************************************************************)
(* The native calls, as entries of the log.  `simple` is the raw handle    *)
(* the call is about (for pa_simple_new: the one it returned), `err` the   *)
(* code the library gives for the call, `errp` whether the caller passed   *)
(* an error slot to receive it, `by` the handle (its index in `handles`)   *)
(* whose method made the call, 0 for none.                                 *)
(***************************************************************************)
NoOpen ==
    [server |-> NULL, name |-> NULL, dir |-> -1, dev |-> NULL,
     stream_name |-> <<>>,
     sample_spec |-> [format |-> -1, rate |-> 0, channels |-> 0],
     chan_map |-> NULL, attr |-> NULL]

pa_simple_new(dir, stream_name, sample_spec, ret, err) ==
    [fn |-> "pa_simple_new", simple |-> ret, len |-> 0, err |-> err,
     errp |-> TRUE, by |-> 0,
     open |-> [server |-> NULL, name |-> NULL, dir |-> dir, dev |-> NULL,
               stream_name |-> stream_name, sample_spec |-> sample_spec,
               chan_map |-> NULL, attr |-> NULL]]

pa_simple_write(simple, len, err) ==
    [fn |-> "pa_simple_write", simple |-> simple, len |-> len, err |-> err,
     errp |-> TRUE, by |-> 0, open |-> NoOpen]

pa_simple_drain(simple, errp, err) ==
    [fn |-> "pa_simple_drain", simple |-> simple, len |-> 0, err |-> err,
     errp |-> errp, by |-> 0, open |-> NoOpen]

pa_simple_free(simple) ==
    [fn |-> "pa_simple_free", simple |-> simple, len |-> 0, err |-> 0,
     errp |-> FALSE, by |-> 0, open |-> NoOpen]

pa_strerror(err) ==
    [fn |-> "pa_strerror", simple |-> NULL, len |-> 0, err |-> err,
     errp |-> FALSE, by |-> 0, open |-> NoOpen]

\* the error codes the library may leave in an error slot (0: none)
NativeErrs == {-1, 0, 3}

\* the library's message table (static storage); one message holds a byte
\* that is not UTF-8
NativeMsg(err) ==
    CASE err = -1 -> <<69, 49>>
      [] err = 3 -> <<69, 255>>
      [] OTHER -> <<79, 75>>

\* CStr::to_string_lossy on bytes that are ASCII or lone invalid bytes:
\* an invalid byte becomes U+FFFD
to_string_lossy(bytes) ==
    [i \in 1..Len(bytes) |-> IF bytes[i] < 128 THEN bytes[i] ELSE 65533]

(***************************************************************************)
(* err_to_string: CString::from_raw adopts the buffer pa_strerror returns, *)
(* the String is copied out of it, and the CString is then dropped: its    *)
(* first byte is zeroed and the buffer is handed to the allocator.  The    *)
(* buffer is the library's static storage, so this is undefined: the build *)
(* either goes on or dies there, and a buffer released before may read as  *)
(* the message or as the empty string.                                     *)
(***************************************************************************)
UbOutcomes == {"returns", "aborts"}

WasReleased(err) == \E i \in 1..Len(released) : released[i] = err

BufContents(err) ==
    IF WasReleased(err) THEN {NativeMsg(err), <<>>} ELSE {NativeMsg(err)}

\* the buffers err_to_string releases when translating err
err_to_string_releases(err) == <<err>>

\* the calls of one method of handle h
By(h, cs) == [i \in 1..Len(cs) |-> [cs[i] EXCEPT !.by = h]]

\* `if err != 0`
Failed(err) == err # 0

NoLast ==
    [op |-> "none", h |-> 0, n |-> 0, at |-> 0, err |-> 0, res |-> "None",
     msg |-> <<>>]

\* The tail shared by new, write and drain, after the native call was
\* appended to `log` at index `at`:
\*   if err != 0 { return Err(err_to_string(err)); }  Ok(..)
Return(op, h, n, at, log, err, ub, buf) ==
    IF Failed(err)
    THEN /\ calls' = Append(log, pa_strerror(err))
         /\ released' = released \o err_to_string_releases(err)
         /\ IF ub = "aborts"
            THEN /\ proc' = "aborted"
                 /\ last' = [op |-> op, h |-> h, n |-> n, at |-> at,
                             err |-> err, res |-> "Abort", msg |-> <<>>]
            ELSE /\ proc' = proc
                 /\ last' = [op |-> op, h |-> h, n |-> n, at |-> at,
                             err |-> err, res |-> "Err",
                             msg |-> to_string_lossy(buf)]
    ELSE /\ calls' = log
         /\ released' = released
         /\ proc' = proc
         /\ last' = [op |-> op, h |-> h, n |-> n, at |-> at, err |-> err,
                     res |-> "Ok", msg |-> <<>>]

(***************************************************************************)
(* Simple<T>: the raw pointer and the sample type.  `state` is the         *)
(* ownership of the value: "Open" while it is owned, "Closed" once Drop    *)
(* has run (the value is moved out; it is neither Clone nor Copy).  A      *)
(* behaviour follows the handles of one instantiation Simple<T>: handles   *)
(* of different sample types share no state of this layer.                 *)
(***************************************************************************)
Self(raw_handle, t) == [raw_handle |-> raw_handle, T |-> t, state |-> "Open"]

\* faulty variant: the value stays usable after its Drop (a copy of it outlives it)
Dropped_StillOpen(self) == self

Dropped(self) == [self EXCEPT !.state = "Closed"]

OpenHandles == {h \in 1..Len(handles) : handles[h].state = "Open"}

\* a pointer to a new native object: none of the pointers returned so far
FreshPtr == Len(calls) + 1

Init ==
    /\ handles = <<>>
    /\ calls = <<>>
    /\ last = NoLast
    /\ proc = "running"
    /\ released = <<>>
    /\ T \in SampleTypes
    /\ target_endian = "little"

(***************************************************************************)
(* Simple::new                                                             *)
(***************************************************************************)
New(stream_name, direction, sample_spec, ret, err, ub, buf) ==
    /\ proc = "running"
    /\ Len(handles) < MaxHandles
    /\ UNCHANGED <<T, target_endian>>
    /\ IF HasNul(stream_name)
       THEN \* CString::new(..).expect(..) panics
            /\ proc' = "unwinding"
            /\ last' = [op |-> "new", h |-> 0, n |-> 0, at |-> 0, err |-> 0,
                        res |-> "Panic", msg |-> <<>>]
            /\ UNCHANGED <<handles, calls, released>>
       ELSE LET sam_raw == [SampleSpec_into_c(sample_spec) EXCEPT
                                !.format = FORMAT(T, target_endian)]
                log == Append(calls,
                           pa_simple_new(StreamDirection_into_c(direction),
                                         stream_name, sam_raw, ret, err))
            IN  /\ Return("new", IF Failed(err) THEN 0 ELSE Len(handles) + 1,
                          0, Len(calls) + 1, log, err, ub, buf)
                /\ handles' = IF Failed(err) THEN handles
                              ELSE Append(handles, Self(ret, T))

(***************************************************************************)
(* Simple::write, Simple::write_single                                     *)
(***************************************************************************)
\* faulty variant: the sample count is passed as the byte length
as_bytes_len_Count(n, t) == n

\* as_bytes(slice).len() for a slice of n samples of T
as_bytes_len(n, t) == n * size_of(t)

WriteCalls(self, n, err) ==
    <<pa_simple_write(self.raw_handle, as_bytes_len(n, self.T), err)>>

Write(h, n, err, ub, buf) ==
    /\ proc = "running"
    /\ h \in OpenHandles
    /\ Return("write", h, n, Len(calls) + 1,
              calls \o By(h, WriteCalls(handles[h], n, err)), err, ub, buf)
    /\ UNCHANGED <<handles, T, target_endian>>

WriteSingle(h, err, ub, buf) == Write(h, 1, err, ub, buf)

(***************************************************************************)
(* Simple::drain                                                           *)
(***************************************************************************)
\* faulty variant: drain also frees the stream
DrainCalls_ThenFree(self, err) ==
    <<pa_simple_drain(self.raw_handle, TRUE, err),
      pa_simple_free(self.raw_handle)>>

DrainCalls(self, err) == <<pa_simple_drain(self.raw_handle, TRUE, err)>>

Drain(h, err, ub, buf) ==
    /\ proc = "running"
    /\ h \in OpenHandles
    /\ Return("drain", h, 0, Len(calls) + 1,
              calls \o By(h, DrainCalls(handles[h], err)), err, ub, buf)
    /\ UNCHANGED <<handles, T, target_endian>>

(***************************************************************************)
(* Drop for Simple<T>: at the end of ownership, also while a panic         *)
(* unwinds.  The drain gets a null error slot.                             *)
(***************************************************************************)
\* faulty variant: the stream is freed before it is drained
DropCalls_FreeFirst(self, err) ==
    <<pa_simple_free(self.raw_handle),
      pa_simple_drain(self.raw_handle, FALSE, err)>>

DropCalls(self, err) ==
    <<pa_simple_drain(self.raw_handle, FALSE, err),
      pa_simple_free(self.raw_handle)>>

Drop(h, err) ==
    /\ proc \in {"running", "unwinding"}
    /\ h \in OpenHandles
    /\ calls' = calls \o By(h, DropCalls(handles[h], err))
    /\ handles' = [handles EXCEPT ![h] = Dropped(handles[h])]
    /\ last' = [op |-> "drop", h |-> h, n |-> 0, at |-> Len(calls) + 1,
                err |-> err, res |-> "Unit", msg |-> <<>>]
    /\ UNCHANGED <<proc, released, T, target_endian>>

(***************************************************************************)
(* The caller: any operation the borrow checker admits, with any outcome   *)
(* of the native call.                                                     *)
(***************************************************************************)
\* u32 rates; c_uint has the same width, so no rate is converted
Rates == {0, 44100, 2147483647}
Channels == {0, 2, 127, 128, 255}
PlainSpecs == {SampleSpec_new(44100, 2)}
AllSpecs == {SampleSpec_new(r, c) : r \in Rates, c \in Channels}

\* the public operations so far that reached their native call
Ops == Cardinality({i \in 1..Len(calls) : calls[i].errp})

Room == Ops < MaxOps

NewAny(dirs, specs) ==
    \E stream_name \in Names, direction \in dirs, sample_spec \in specs,
       ret \in {NULL, FreshPtr}, err \in NativeErrs, ub \in UbOutcomes :
        \E buf \in BufContents(err) :
            New(stream_name, direction, sample_spec, ret, err, ub, buf)

WriteAny ==
    \E h \in OpenHandles, n \in 0..MaxSamples, err \in NativeErrs,
       ub \in UbOutcomes :
        \E buf \in BufContents(err) : Write(h, n, err, ub, buf)

WriteSingleAny ==
    \E h \in OpenHandles, err \in NativeErrs, ub \in UbOutcomes :
        \E buf \in BufContents(err) : WriteSingle(h, err, ub, buf)

DrainAny ==
    \E h \in OpenHandles, err \in NativeErrs, ub \in UbOutcomes :
        \E buf \in BufContents(err) : Drain(h, err, ub, buf)

DropAny == \E h \in OpenHandles, err \in {0, 3} : Drop(h, err)

Next ==
    \/ Room /\ NewAny({"Playback"}, PlainSpecs)
    \/ Room /\ WriteAny
    \/ Room /\ WriteSingleAny
    \/ Room /\ DrainAny
    \/ DropAny

Spec == Init /\ [][Next]_vars

\* Construction alone, over every sample spec and both byte orders.
InitOpen ==
    /\ handles = <<>>
    /\ calls = <<>>
    /\ last = NoLast
    /\ proc = "running"
    /\ released = <<>>
    /\ T \in SampleTypes
    /\ target_endian \in {"little", "big"}

NextOpen ==
    \/ Ops < MaxOpenCalls /\ NewAny(Directions, AllSpecs)
    \/ DropAny

SpecOpen == InitOpen /\ [][NextOpen]_vars

(***************************************************************************)
(* Readings of the log used by the properties.                             *)
(***************************************************************************)
Handles == 1..Len(handles)

IdxBy(h) == {i \in 1..Len(calls) : calls[i].by = h}

FreesBy(h) == {i \in IdxBy(h) : calls[i].fn = "pa_simple_free"}

\* the drains of Drop: the ones given no error slot
FinalDrainsBy(h) ==
    {i \in IdxBy(h) : calls[i].fn = "pa_simple_drain" /\ ~calls[i].errp}

\* the native call of the most recent operation, when it made one
LastCall == calls[last.at]

MadeCall == last.at > 0

(***************************************************************************)
(* C1: for every handle a successful new returned, whatever writes and     *)
(* drains were made on it and whatever they returned, Drop issues exactly  *)
(* one native drain and then exactly one native free, both on the          *)
(* handle's pointer and next to each other in that order; the free is      *)
(* issued also when that drain fails, and Drop surfaces no error (it       *)
(* translates none and returns unit).  A handle not yet dropped has        *)
(* neither call.                                                           *)
(***************************************************************************)
C1_DropDrainsThenFrees ==
    /\ \A h \in Handles :
        IF handles[h].state = "Closed"
        THEN \E d \in 1..Len(calls) :
                /\ d + 1 <= Len(calls)
                /\ FinalDrainsBy(h) = {d}
                /\ FreesBy(h) = {d + 1}
                /\ calls[d].simple = handles[h].raw_handle
                /\ calls[d + 1].simple = handles[h].raw_handle
        ELSE FinalDrainsBy(h) = {} /\ FreesBy(h) = {}
    /\ last.op = "drop" =>
        /\ last.res = "Unit"
        /\ Len(calls) = last.at + 1
        /\ LastCall.err = last.err
        /\ handles[last.h].state = "Closed"

\* a handle was dropped after a failed write, and the drain of its Drop
\* failed too
C1_Witness ==
    \E h \in Handles :
        /\ handles[h].state = "Closed"
        /\ \E i \in IdxBy(h) : calls[i].fn = "pa_simple_write" /\ calls[i].err # 0
        /\ \E d \in FinalDrainsBy(h) : calls[d].err # 0 /\ d + 1 \in FreesBy(h)

(***************************************************************************)
(* C2: when the native open leaves a non-zero code in the error slot,      *)
(* Simple::new returns an error, creates no handle, and no native drain    *)
(* or free is ever issued for that construction.                           *)
(***************************************************************************)
C2_FailedOpenReturnsErrAndFreesNothing ==
    \A i \in 1..Len(calls) :
        (calls[i].fn = "pa_simple_new" /\ calls[i].err # 0) =>
            /\ (last.op = "new" /\ last.at = i) => (last.res = "Err" /\ last.h = 0)
            /\ calls[i].simple # NULL =>
                \A h \in Handles : handles[h].raw_handle # calls[i].simple
            /\ calls[i].simple # NULL =>
                \A j \in 1..Len(calls) :
                    calls[j].fn \in {"pa_simple_drain", "pa_simple_free"}
                        => calls[j].simple # calls[i].simple

(***************************************************************************)
(* C3: the raw pointer of every existing handle is non-null: a null        *)
(* pointer returned with a zero error code yields an error, not a handle.  *)
(***************************************************************************)
C3_RawHandleNonNull ==
    \A h \in Handles : handles[h].raw_handle # NULL

(***************************************************************************)
(* C4: a stream name with an interior nul byte makes Simple::new return    *)
(* Err (an input-validation error) without any foreign call.               *)
(***************************************************************************)
C4_NulNameReturnsErr ==
    [][\A stream_name \in Names :
         (HasNul(stream_name) /\
          \E direction \in Directions, sample_spec \in PlainSpecs,
             ret \in {NULL, FreshPtr}, err \in NativeErrs, ub \in UbOutcomes :
              \E buf \in BufContents(err) :
                New(stream_name, direction, sample_spec, ret, err, ub, buf))
         => (last'.op = "new" /\ last'.res = "Err" /\ calls' = calls)]_vars

(***************************************************************************)
(* C5: a write of N samples of T issues exactly one native write, on the   *)
(* handle's pointer, of N * sizeof(T) bytes (u8: 1, i16: 2, f32 and i32:   *)
(* 4); for N = 0 the length is 0 and write returns Ok when the call        *)
(* reports no error; write_single is the case N = 1.                       *)
(***************************************************************************)
C5_SizeOf ==
    CASE T = "u8" -> 1 [] T = "i16" -> 2 [] T = "f32" -> 4 [] T = "i32" -> 4

C5_WriteInv ==
    last.op = "write" =>
        /\ MadeCall
        /\ LastCall.fn = "pa_simple_write"
        /\ LastCall.by = last.h
        /\ LastCall.simple = handles[last.h].raw_handle
        /\ handles[last.h].T = T
        /\ LastCall.len = last.n * C5_SizeOf
        /\ \A i \in (last.at + 1)..Len(calls) : calls[i].fn = "pa_strerror"
        /\ (last.n = 0) => (LastCall.len = 0)
        /\ (LastCall.err = 0) => (last.res = "Ok" /\ Len(calls) = last.at)

\* C5: every write is one native write of N * sizeof(T) bytes, and every
\* write_single is the write of one sample
C5_WriteLength ==
    /\ []C5_WriteInv
    /\ [][WriteSingleAny =>
            /\ last'.op = "write" /\ last'.n = 1
            /\ Len(calls') > Len(calls)
            /\ calls'[Len(calls) + 1].fn = "pa_simple_write"
            /\ calls'[Len(calls) + 1].len = C5_SizeOf
            /\ \A i \in (Len(calls) + 2)..Len(calls') :
                    calls'[i].fn = "pa_strerror"]_vars

\* an empty write that returned Ok, after a write of two samples
C5_Witness ==
    /\ last.op = "write" /\ last.n = 0 /\ last.res = "Ok"
    /\ LastCall.len = 0
    /\ \E i \in 1..(last.at - 1) :
        /\ calls[i].fn = "pa_simple_write" /\ calls[i].by = last.h
        /\ calls[i].len = 2 * C5_SizeOf

(***************************************************************************)
(* C6: a handle stays Open across every write and drain, failed or not:    *)
(* the call goes to the handle's own pointer, no write or drain issues a   *)
(* native free, after it a further write and a further drain on the same   *)
(* handle are permitted, and only Drop closes a handle.                    *)
(***************************************************************************)
C6_StaysOpen ==
    /\ \A h \in Handles :
        /\ \A i \in IdxBy(h) : calls[i].simple = handles[h].raw_handle
        /\ handles[h].state = "Open" => FreesBy(h) = {}
        /\ handles[h].state = "Closed" => FinalDrainsBy(h) # {}
    /\ last.op \in {"write", "drain"} =>
        /\ MadeCall
        /\ LastCall.by = last.h
        /\ LastCall.fn = (IF last.op = "write" THEN "pa_simple_write"
                                              ELSE "pa_simple_drain")
        /\ LastCall.errp
        /\ \A i \in last.at..Len(calls) : calls[i].fn # "pa_simple_free"
        /\ handles[last.h].state = "Open"
        /\ last.res \in {"Ok", "Err"} =>
            /\ ENABLED (\E n \in 0..MaxSamples, err \in NativeErrs,
                           ub \in UbOutcomes : \E buf \in BufContents(err) :
                            Write(last.h, n, err, ub, buf))
            /\ ENABLED (\E err \in NativeErrs, ub \in UbOutcomes :
                            \E buf \in BufContents(err) :
                                Drain(last.h, err, ub, buf))

\* a drain that succeeded on a handle whose earlier write failed
C6_Witness ==
    /\ last.op = "drain" /\ last.res = "Ok"
    /\ \E i \in 1..(last.at - 1) :
        /\ calls[i].by = last.h
        /\ calls[i].fn = "pa_simple_write"
        /\ calls[i].err # 0
        /\ calls[i].simple = LastCall.simple

(***************************************************************************)
(* C7: each call of new, write or drain returns Err carrying the strerror  *)
(* translation of the code exactly when its own native call left a         *)
(* non-zero code in the error slot, and Ok otherwise.                      *)
(***************************************************************************)
C7_ErrIffNativeErr ==
    (last.op \in {"new", "write", "drain"} /\ MadeCall) =>
        IF LastCall.err # 0
        THEN last.res = "Err" /\ last.msg = to_string_lossy(NativeMsg(LastCall.err))
        ELSE last.res = "Ok"

(***************************************************************************)
(* C8: a new with a valid name makes exactly one native open whose         *)
(* direction code is 0 for Capture and 1 for Playback and whose record     *)
(* has rate = r, channels = c for every c in 0..255, and the host-endian   *)
(* format tag of T (u8 0, i16 3, f32 5, i32 7 on little-endian).           *)
(***************************************************************************)
C8_OpenRecord ==
    [][\A stream_name \in Names, direction \in Directions,
          sample_spec \in AllSpecs :
         (~HasNul(stream_name) /\
          \E ret \in {NULL, FreshPtr}, err \in NativeErrs, ub \in UbOutcomes :
              \E buf \in BufContents(err) :
                New(stream_name, direction, sample_spec, ret, err, ub, buf))
         => /\ Len(calls') > Len(calls)
            /\ \A i \in (Len(calls) + 2)..Len(calls') :
                    calls'[i].fn # "pa_simple_new"
            /\ LET c == calls'[Len(calls) + 1]
               IN  /\ c.fn = "pa_simple_new"
                   /\ c.open.dir = (IF direction = "Capture" THEN 0 ELSE 1)
                   /\ c.open.stream_name = stream_name
                   /\ c.open.sample_spec.rate = sample_spec.rate
                   /\ c.open.sample_spec.channels = sample_spec.n_channels
                   /\ target_endian = "little" =>
                        c.open.sample_spec.format =
                            (CASE T = "u8" -> 0 [] T = "i16" -> 3
                               [] T = "f32" -> 5 [] T = "i32" -> 7)]_vars

(***************************************************************************)
(* C9: Closed is terminal: once the Drop of a handle has issued its drain, *)
(* the only further native call made through that handle, or on its        *)
(* pointer, is the single free that follows at once.                       *)
(***************************************************************************)
C9_ClosedIsTerminal ==
    \A h \in Handles : \A d \in FinalDrainsBy(h) :
        /\ handles[h].state = "Closed"
        /\ {i \in IdxBy(h) : i > d} = {d + 1}
        /\ calls[d + 1].fn = "pa_simple_free"
        /\ handles[h].raw_handle # NULL =>
            {i \in 1..Len(calls) :
                i > d /\ calls[i].simple = handles[h].raw_handle} = {d + 1}
        /\ (last.h = h /\ last.op \in {"write", "drain"}) => last.at < d

\* after one handle was dropped, a write went through another one
C9_Witness ==
    \E h \in Handles : \E d \in FinalDrainsBy(h) :
        /\ handles[h].raw_handle # NULL
        /\ last.op = "write" /\ last.h # h /\ last.at > d + 1

(***************************************************************************)
(* C10: the buffer strerror returns is borrowed: this layer never          *)
(* releases one.                                                           *)
(***************************************************************************)
C10_StrerrorBufferNeverReleased ==
    released = <<>>

====
